---- MODULE Spec2Model ----
(***************************************************************************)
(* Model of the Russound RNET client, src/russound/russound.py:            *)
(* message codec and command builder (pure operators), the signature       *)
(* matcher, and the transport session with its lock, seen by several       *)
(* caller threads.                                                         *)
(***************************************************************************)
EXTENDS Integers, Sequences, FiniteSets, TLC

(***************************************************************************)
(* Bounds of the model.                                                    *)
(***************************************************************************)
NThreads == 2
MaxCalls == 2
MaxController == 8
MaxZone == 8
MaxVolume == 100
MaxSource == 5
MaxRawLen == 3
MaxDeviceWrites == 1

(***************************************************************************)
(* Strings are sequences of one-character strings, so that hex(),          *)
(* replace(), lstrip(), zfill() and bytes.fromhex() are computed.          *)
(***************************************************************************)
LowerDigits == <<"0", "1", "2", "3", "4", "5", "6", "7", "8", "9", "a", "b", "c", "d", "e", "f">>

UpperDigits == <<"0", "1", "2", "3", "4", "5", "6", "7", "8", "9", "A", "B", "C", "D", "E", "F">>

IsHexChar(ch) == \E i \in 1..16 : LowerDigits[i] = ch \/ UpperDigits[i] = ch

HexVal(ch) == (CHOOSE i \in 1..16 : LowerDigits[i] = ch \/ UpperDigits[i] = ch) - 1

RECURSIVE HexDigitsOf(_)
HexDigitsOf(n) == IF n < 16 THEN <<LowerDigits[n + 1]>>
                  ELSE HexDigitsOf(n \div 16) \o <<LowerDigits[(n % 16) + 1]>>

\* Python hex(n): '0x..' for n >= 0 and '-0x..' for n < 0.
hex(n) == IF n < 0 THEN <<"-", "0", "x">> \o HexDigitsOf(-n)
          ELSE <<"0", "x">> \o HexDigitsOf(n)

\* s.replace('0x', '')
RECURSIVE Replace0x(_)
Replace0x(s) == IF s = <<>> THEN <<>>
                ELSE IF Len(s) >= 2 /\ s[1] = "0" /\ s[2] = "x"
                     THEN Replace0x(SubSeq(s, 3, Len(s)))
                     ELSE <<s[1]>> \o Replace0x(Tail(s))

\* s.lstrip("0x"): strips every leading character that is '0' or 'x'.
RECURSIVE Lstrip0x(_)
Lstrip0x(s) == IF s # <<>> /\ s[1] \in {"0", "x"} THEN Lstrip0x(Tail(s)) ELSE s

\* s.zfill(2): pads on the left with '0' up to width 2 (after a sign).
zfill2(s) == IF Len(s) >= 2 THEN s
             ELSE IF s = <<>> THEN <<"0", "0">>
             ELSE IF s[1] \in {"-", "+"} THEN <<s[1], "0">>
             ELSE <<"0", s[1]>>

\* int(value, 16) accepts an optional sign followed by hex digits.
IsHexInt(s) == LET body == IF s # <<>> /\ s[1] \in {"-", "+"} THEN Tail(s) ELSE s
               IN  body # <<>> /\ \A i \in DOMAIN body : IsHexChar(body[i])

RECURSIVE HexMagnitude(_)
HexMagnitude(s) == IF s = <<>> THEN 0
                   ELSE 16 * HexMagnitude(SubSeq(s, 1, Len(s) - 1)) + HexVal(s[Len(s)])

IntHex(s) == IF s[1] = "-" THEN 0 - HexMagnitude(Tail(s))
             ELSE IF s[1] = "+" THEN HexMagnitude(Tail(s))
             ELSE HexMagnitude(s)

\* bytes.fromhex(s): pairs of hex digits; anything else is a ValueError.
FromHexOk(s) == Len(s) % 2 = 0 /\ \A i \in DOMAIN s : IsHexChar(s[i])

FromHex(s) == [i \in 1..(Len(s) \div 2) |-> 16 * HexVal(s[2 * i - 1]) + HexVal(s[2 * i])]

(***************************************************************************)
(* Message templates: the string literals of the zone operations, as the   *)
(* token lists that split() makes of them.                                 *)
(***************************************************************************)
T(a, b) == <<a, b>>

CC == <<"@", "c", "c">>
ZZ == <<"@", "z", "z">>
KK == <<"@", "k", "k">>
PR == <<"@", "p", "r">>

KEYPAD_CODE == <<"7", "0">>

TplSetPower ==
  << T("F","0"), CC, T("0","0"), T("7","F"), T("0","0"), T("0","0"), KK, T("0","5"), T("0","2"), T("0","2"),
     T("0","0"), T("0","0"), T("F","1"), T("2","3"), T("0","0"), PR, T("0","0"), ZZ, T("0","0"), T("0","1") >>

TplSetVolume ==
  << T("F","0"), CC, T("0","0"), T("7","F"), T("0","0"), T("0","0"), KK, T("0","5"), T("0","2"), T("0","2"),
     T("0","0"), T("0","0"), T("F","1"), T("2","1"), T("0","0"), PR, T("0","0"), ZZ, T("0","0"), T("0","1") >>

TplSetSource ==
  << T("F","0"), CC, T("0","0"), T("7","F"), T("0","0"), ZZ, KK, T("0","5"), T("0","2"), T("0","0"),
     T("0","0"), T("0","0"), T("F","1"), T("3","E"), T("0","0"), T("0","0"), T("0","0"), PR, T("0","0"), T("0","1") >>

TplAllOnOff ==
  << T("F","0"), T("7","F"), T("0","0"), T("7","F"), T("0","0"), T("0","0"), KK, T("0","5"), T("0","2"), T("0","2"),
     T("0","0"), T("0","0"), T("F","1"), T("2","2"), T("0","0"), T("0","0"), PR, T("0","0"), T("0","0"), T("0","1") >>

TplToggleMute ==
  << T("F","0"), CC, T("0","0"), T("7","F"), T("0","0"), ZZ, KK, T("0","5"), T("0","2"), T("0","2"),
     T("0","0"), T("0","0"), T("F","1"), T("4","0"), T("0","0"), T("0","0"), T("0","0"), T("0","D"), T("0","0"), T("0","1") >>

\* a query template with one more trailing byte
TplGetZoneInfo16 ==
  << T("F","0"), CC, T("0","0"), T("7","F"), T("0","0"), T("0","0"), KK, T("0","1"), T("0","4"), T("0","2"),
     T("0","0"), ZZ, T("0","7"), T("0","0"), T("0","0"), T("0","0") >>

TplGetZoneInfo ==
  << T("F","0"), CC, T("0","0"), T("7","F"), T("0","0"), T("0","0"), KK, T("0","1"), T("0","4"), T("0","2"),
     T("0","0"), ZZ, T("0","7"), T("0","0"), T("0","0") >>

TplSignature == << T("0","4"), T("0","2"), T("0","0"), ZZ, T("0","7") >>

\* An optional Python value: None, or a value v held as Some(v).
None == <<>>

Some(v) == <<v>>

Val(x) == x[1]

(***************************************************************************)
(* Message codec and command builder.  A result is a record: ok = TRUE     *)
(* with the value, or ok = FALSE with the exception raised.                *)
(***************************************************************************)
Ok(v) == [ok |-> TRUE, val |-> v]

Raise(e) == [ok |-> FALSE, exc |-> e]

RECURSIVE SumTokens(_)
SumTokens(data) == IF data = <<>> THEN 0 ELSE IntHex(data[1]) + SumTokens(Tail(data))

\* output & 0x007F on Python's unbounded integers.
And7F(n) == n % 128

F7 == <<"F", "7">>

\* a checksum that leaves the length out of the sum
calc_checksum_nolen(data) ==
  IF \E i \in DOMAIN data : ~IsHexInt(data[i]) THEN Raise("ValueError")
  ELSE LET output == SumTokens(data)
           checksum == Lstrip0x(hex(And7F(output)))
       IN  Ok(data \o <<checksum, F7>>)

\* __calc_checksum(data): checksum = hex(output & 0x7F).lstrip("0x"); data + [checksum, 'F7']
calc_checksum(data) ==
  IF \E i \in DOMAIN data : ~IsHexInt(data[i]) THEN Raise("ValueError")
  ELSE LET output == SumTokens(data) + Len(data)
           checksum == Lstrip0x(hex(And7F(output)))
       IN  Ok(data \o <<checksum, F7>>)

\* string_message.replace(placeholder, value), on the tokens of the message
ReplaceToken(msg, ph, v) == [i \in DOMAIN msg |-> IF msg[i] = ph THEN v ELSE msg[i]]

\* string_message.split(): an empty substitution leaves no token behind
Split(msg) == SelectSeq(msg, LAMBDA tk : tk # <<>>)

\* a controller byte that is not made zero based
cc_of_onebased(controller) == Replace0x(hex(Val(controller)))

cc_of(controller) == Replace0x(hex(Val(controller) - 1))

zz_of(zone) == IF zone # None THEN Replace0x(hex(Val(zone) - 1)) ELSE <<>>

pr_of(parameter) == IF parameter # None THEN Replace0x(hex(Val(parameter))) ELSE <<>>

\* the four replace() calls and the split() of __create_send_message
substitute(tpl, controller, zone, parameter) ==
  LET m1 == ReplaceToken(tpl, CC, cc_of(controller))
      m2 == ReplaceToken(m1, ZZ, zz_of(zone))
      m3 == ReplaceToken(m2, KK, KEYPAD_CODE)
      m4 == ReplaceToken(m3, PR, pr_of(parameter))
  IN  Split(m4)

\* a builder that finalizes its message twice
create_send_message_twice(tpl, controller, zone, parameter) ==
  IF controller = None THEN Raise("TypeError")
  ELSE LET once == calc_checksum(substitute(tpl, controller, zone, parameter))
       IN  IF once.ok THEN calc_checksum(once.val) ELSE once

\* __create_send_message(string_message, controller, zone, parameter):
\* int(controller) raises TypeError on None
create_send_message(tpl, controller, zone, parameter) ==
  IF controller = None THEN Raise("TypeError")
  ELSE calc_checksum(substitute(tpl, controller, zone, parameter))

\* __create_response_signature(string_message, zone)
create_response_signature(tpl, zone) == ReplaceToken(tpl, ZZ, zz_of(zone))

\* bytes.fromhex(str(item.zfill(2))) of __send_data, for one item
ItemOk(item) == FromHexOk(zfill2(item))

ItemBytes(item) == FromHex(zfill2(item))

(***************************************************************************)
(* The zone operations: the template and the arguments each hands to       *)
(* __create_send_message.  A call is [op, controller, zone, arg].          *)
(***************************************************************************)
OpNames == {"set_power", "set_volume", "set_source", "all_on_off", "toggle_mute", "get_zone_info"}

TemplateOf(opname) ==
  CASE opname = "set_power"     -> TplSetPower
    [] opname = "set_volume"    -> TplSetVolume
    [] opname = "set_source"    -> TplSetSource
    [] opname = "all_on_off"    -> TplAllOnOff
    [] opname = "toggle_mute"   -> TplToggleMute
    [] opname = "get_zone_info" -> TplGetZoneInfo

\* the message each operation builds before it takes the lock
BuildMessage(call) ==
  CASE call.op = "set_power"     -> create_send_message(TplSetPower, call.controller, call.zone, call.arg)
    [] call.op = "set_volume"    -> create_send_message(TplSetVolume, call.controller, call.zone, Some(Val(call.arg) \div 2))
    [] call.op = "set_source"    -> create_send_message(TplSetSource, call.controller, call.zone, call.arg)
    [] call.op = "all_on_off"    -> create_send_message(TplAllOnOff, None, None, call.arg)
    [] call.op = "toggle_mute"   -> create_send_message(TplToggleMute, call.controller, call.zone, None)
    [] call.op = "get_zone_info" -> create_send_message(TplGetZoneInfo, call.controller, call.zone, None)

\* get_zone_info passes a signature to the receive step, the others none
SignatureOf(call) ==
  IF call.op = "get_zone_info" THEN create_response_signature(TplSignature, call.zone) ELSE None

Call(o, c, z, a) == [op |-> o, controller |-> c, zone |-> z, arg |-> a]

ZoneCall(o, c, z, a) == Call(o, Some(c), Some(z), Some(a))

\* every call with valid arguments
ValidCalls ==
  {ZoneCall("set_power", c, z, p) : c \in 1..MaxController, z \in 1..MaxZone, p \in {0, 1}}
  \cup {ZoneCall("set_volume", c, z, v) : c \in 1..MaxController, z \in 1..MaxZone, v \in 0..MaxVolume}
  \cup {ZoneCall("set_source", c, z, s) : c \in 1..MaxController, z \in 1..MaxZone, s \in 0..MaxSource}
  \cup {Call("all_on_off", None, None, Some(p)) : p \in {0, 1}}
  \cup {Call("toggle_mute", Some(c), Some(z), None) : c \in 1..MaxController, z \in 1..MaxZone}
  \cup {ZoneCall("get_zone_info", c, z, f) : c \in 1..MaxController, z \in 1..MaxZone, f \in {0, 1, 2, 4}}


(***************************************************************************)
(* State.  The session: the socket, the lock, the caller threads and what  *)
(* the transport has seen.  The codec variables c_* hold one message on    *)
(* its way through the builder and the byte encoding of __send_data.  The  *)
(* variables rt_* hold one volume on its way to the device and back, the   *)
(* variables m_* one stream on its way through the signature matcher.      *)
(***************************************************************************)
VARIABLES sock, lock, pc, th, ret, ncalls, wire, inq, dev_writes, last_api,
          time_since_last_send,
          c_kind, c_stage, c_in, c_msg, c_out,
          rt_stage, rt_call, rt_dev, rt_ret,
          m_stage, m_sig, m_script, m_in, m_data, m_out, m_read, m_chunk

session_vars == <<sock, lock, pc, th, ret, ncalls, wire, inq, dev_writes, last_api,
                  time_since_last_send>>

codec_vars == <<c_kind, c_stage, c_in, c_msg, c_out>>

volume_vars == <<rt_stage, rt_call, rt_dev, rt_ret>>

matcher_vars == <<m_stage, m_sig, m_script, m_in, m_data, m_out, m_read, m_chunk>>

\* the variables that no step of the session touches
pure_vars == <<codec_vars, volume_vars, matcher_vars>>

vars == <<sock, lock, pc, th, ret, ncalls, wire, inq, dev_writes, last_api,
          time_since_last_send,
          c_kind, c_stage, c_in, c_msg, c_out,
          rt_stage, rt_call, rt_dev, rt_ret,
          m_stage, m_sig, m_script, m_in, m_data, m_out, m_read, m_chunk>>

Threads == 1..NThreads

NoThread == 0

\* a thread that is not inside a zone operation
NoFrame == [call |-> Call("none", None, None, None), msg |-> <<>>, sig |-> None,
            item |-> 0, no_of_socket_reads |-> 0, i |-> 0, data |-> <<>>,
            matching_message |-> None, started |-> "none", exc |-> "none", io |-> 0]

NoResult == [kind |-> "none", val |-> None]

\* What a transport that records the sends has seen on the connection: the
\* caller that sent last and the bytes of its run so far (emptied when the
\* run is one whole message), the callers whose run has ended since their
\* call began, the number of runs that were one whole message, the number of
\* calls that went through their whole send loop, and whether a caller sent
\* again after its run had ended.  The recording ends with the connection.
NoWire == [id |-> 0, bytes |-> <<>>, ended |-> {}, frames |-> 0, sends_done |-> 0, split |-> FALSE]

\* Russound.__init__: a fresh socket, a free lock
SessionInit ==
  /\ sock = "unconnected"
  /\ lock = NoThread
  /\ pc = [t \in Threads |-> "idle"]
  /\ th = [t \in Threads |-> NoFrame]
  /\ ret = [t \in Threads |-> NoResult]
  /\ ncalls = 0
  /\ wire = NoWire
  /\ inq = <<>>
  /\ dev_writes = 0
  /\ last_api = [name |-> "none", pre |-> "unconnected", post |-> "unconnected", result |-> "none"]
  /\ time_since_last_send = 0

CodecIdle ==
  /\ c_kind = "none"
  /\ c_stage = "idle"
  /\ c_in = <<>>
  /\ c_msg = Ok(<<>>)
  /\ c_out = <<>>

VolumeIdle ==
  /\ rt_stage = "idle"
  /\ rt_call = <<>>
  /\ rt_dev = None
  /\ rt_ret = NoResult

MatcherIdle ==
  /\ m_stage = "idle"
  /\ m_sig = <<>>
  /\ m_script = <<>>
  /\ m_in = <<>>
  /\ m_data = <<>>
  /\ m_out = None
  /\ m_read = <<>>
  /\ m_chunk = <<>>

(***************************************************************************)
(* The signature matcher.                                                  *)
(***************************************************************************)
\* the end marker 247 that __find_signature looks for
END_MARKER == 247

\* the bytes a match must have from its start to the end of the stream
MIN_RESPONSE_LEN == 24

\* bytearray(int(x, 16) for x in msg_signature.split())
SignatureBytes(sig) == [i \in DOMAIN sig |-> IntHex(sig[i])]

\* a match that does not ask for the bytes after its start
MatchesAtAnyLength(ds, sb, i) ==
  /\ i + Len(sb) - 1 <= Len(ds)
  /\ SubSeq(ds, i, i + Len(sb) - 1) = sb

\* data_stream[i:i + len(msg_signature)] == msg_signature and
\* len(data_stream) - i >= 24, for the 1-based position i
MatchesAt(ds, sb, i) ==
  /\ Len(ds) - (i - 1) >= MIN_RESPONSE_LEN
  /\ i + Len(sb) - 1 <= Len(ds)
  /\ SubSeq(ds, i, i + Len(sb) - 1) = sb

\* the for loop of __find_signature from the 1-based position i on: the
\* position of the first match (0 for None) and of the last end marker seen
\* up to it (0 for None)
RECURSIVE ScanSignature(_, _, _, _)
ScanSignature(ds, sb, i, last_f7) ==
  IF i > Len(ds)
  THEN [signature_match_index |-> 0, index_of_last_f7 |-> last_f7]
  ELSE IF MatchesAt(ds, sb, i)
       THEN [signature_match_index |-> i,
             index_of_last_f7 |-> IF ds[i] = END_MARKER THEN i ELSE last_f7]
       ELSE ScanSignature(ds, sb, i + 1, IF ds[i] = END_MARKER THEN i ELSE last_f7)

\* a matcher that keeps nothing of a stream without a match
find_signature_drop(ds, sig) ==
  LET scan == ScanSignature(ds, SignatureBytes(sig), 1, 0)
  IN  IF scan.signature_match_index = 0
      THEN [matching_message |-> None, data |-> <<>>]
      ELSE [matching_message |-> Some(SubSeq(ds, scan.signature_match_index, Len(ds))),
            data |-> ds]

\* __find_signature(data_stream, msg_signature): the match, and the stream
\* to keep; without a match the stream from the last end marker on
\* (data_stream[None:] is the whole stream)
find_signature(ds, sig) ==
  LET scan == ScanSignature(ds, SignatureBytes(sig), 1, 0)
  IN  IF scan.signature_match_index = 0
      THEN [matching_message |-> None,
            data |-> IF scan.index_of_last_f7 = 0 THEN ds
                     ELSE SubSeq(ds, scan.index_of_last_f7, Len(ds))]
      ELSE [matching_message |-> Some(SubSeq(ds, scan.signature_match_index, Len(ds))),
            data |-> ds]

(***************************************************************************)
(* The socket.  Its state is unconnected, connected, reset (the peer has   *)
(* reset the connection) or closed; each call on it has the outcomes the   *)
(* state allows.                                                           *)
(***************************************************************************)
Disconnected == {"unconnected", "closed"}

\* a connect that reopens a closed socket
SockConnectReopens(s) ==
  IF s \in Disconnected THEN {[post |-> "connected", err |-> "none"], [post |-> s, err |-> "OSError"]}
  ELSE {[post |-> s, err |-> "OSError"]}

\* sock.connect(): succeeds or fails on a fresh socket, fails on one that is
\* connected already (EISCONN) or closed (EBADF)
SockConnect(s) ==
  IF s = "unconnected" THEN {[post |-> "connected", err |-> "none"], [post |-> s, err |-> "OSError"]}
  ELSE {[post |-> s, err |-> "OSError"]}

\* sock.getpeername()
SockGetPeerName(s) ==
  CASE s = "connected" -> {"peer"}
    [] s = "reset"     -> {"peer", "OSError"}
    [] OTHER           -> {"OSError"}

\* sock.send(data): the byte goes out, or the call raises
SockSend(s) ==
  CASE s = "connected"   -> {"sent"}
    [] s = "reset"       -> {"ConnectionResetError", "BrokenPipeError"}
    [] s = "unconnected" -> {"BrokenPipeError", "OSError"}
    [] s = "closed"      -> {"OSError"}

\* sock.setblocking(0)
SockSetBlocking(s) == IF s = "closed" THEN "OSError" ELSE "none"

\* a recv for which an empty queue is an error
SockRecvStrict(s, pending) ==
  IF s = "connected" /\ pending # <<>> THEN {"data"} ELSE {"OSError"}

\* sock.recv(4096) on the non-blocking socket
SockRecv(s, pending) ==
  CASE s = "connected"   -> IF pending = <<>> THEN {"BlockingIOError"} ELSE {"data"}
    [] s = "reset"       -> {"ConnectionResetError"}
    [] s = "unconnected" -> {"OSError"}
    [] s = "closed"      -> {"OSError"}

(***************************************************************************)
(* Time.  The unit of the clock is the delay between commands; the model   *)
(* keeps the time since the last-send timestamp, time.time() - _last_send, *)
(* counted up to COMMAND_DELAY.                                            *)
(***************************************************************************)
COMMAND_DELAY == 1

Max(a, b) == IF a >= b THEN a ELSE b

\* time.sleep(delay): the time since the timestamp, a delay later
Sleep(since, delay) ==
  IF since + delay >= COMMAND_DELAY THEN COMMAND_DELAY ELSE since + delay

(***************************************************************************)
(* Session operations that are one call on the socket.                     *)
(***************************************************************************)
Api(n, pre, post, r) == [name |-> n, pre |-> pre, post |-> post, result |-> r]

\* connect(): True, or False when the socket raises socket.error
Connect ==
  \E o \in SockConnect(sock) :
    /\ sock' = o.post
    /\ last_api' = Api("connect", sock, o.post, IF o.err = "none" THEN "True" ELSE "False")
    /\ UNCHANGED <<lock, pc, th, ret, ncalls, wire, inq, dev_writes>>
    /\ UNCHANGED time_since_last_send
    /\ UNCHANGED pure_vars

\* an is_connected() without its try/except
IsConnectedRaises ==
  \E o \in SockGetPeerName(sock) :
    /\ last_api' = Api("is_connected", sock, sock, IF o = "OSError" THEN "raise" ELSE "True")
    /\ UNCHANGED <<sock, lock, pc, th, ret, ncalls, wire, inq, dev_writes>>
    /\ UNCHANGED time_since_last_send
    /\ UNCHANGED pure_vars

\* is_connected(): getpeername() != '', False when it raises
IsConnected ==
  \E o \in SockGetPeerName(sock) :
    /\ last_api' = Api("is_connected", sock, sock, IF o = "OSError" THEN "False" ELSE "True")
    /\ UNCHANGED <<sock, lock, pc, th, ret, ncalls, wire, inq, dev_writes>>
    /\ UNCHANGED time_since_last_send
    /\ UNCHANGED pure_vars

\* __exit__(): sock.close()
Close ==
  /\ sock' = "closed"
  /\ last_api' = Api("exit", sock, "closed", "None")
  /\ wire' = NoWire
  /\ inq' = <<>>
  /\ UNCHANGED <<lock, pc, th, ret, ncalls, dev_writes>>
  /\ UNCHANGED time_since_last_send
  /\ UNCHANGED pure_vars

\* the peer resets the connection
PeerReset ==
  /\ sock = "connected"
  /\ sock' = "reset"
  /\ wire' = NoWire
  /\ inq' = <<>>
  /\ UNCHANGED <<lock, pc, th, ret, ncalls, dev_writes, last_api>>
  /\ UNCHANGED time_since_last_send
  /\ UNCHANGED pure_vars

(***************************************************************************)
(* The device: what it writes arrives in the socket's receive queue.       *)
(***************************************************************************)
\* the zone status message of the controller (pg 23 of the RNET protocol):
\* the signature 04 02 00 zz 07 is at offset 9, the power, source and
\* volume bytes at offsets 20, 21, 22 of the 33 bytes
StatusFrame(zz, power, source, volume) ==
  <<240, 0, 0, 112, 0, 0, 127, 0, 0, 4, 2, 0, zz, 7, 0, 0, 1, 0, 12, 0,
    power, source, volume, 0, 0, 0, 0, 0, 0, 0, 0, 0, 247>>

\* the status of zone 1 and the status of zone 2
DeviceChunks == {StatusFrame(0, 1, 2, 20), StatusFrame(1, 0, 3, 10)}

\* the device writes one of the chunks
DeviceWrite(chunks) ==
  /\ sock = "connected"
  /\ dev_writes < MaxDeviceWrites
  /\ \E chunk \in chunks : inq' = inq \o chunk
  /\ dev_writes' = dev_writes + 1
  /\ UNCHANGED <<sock, lock, pc, th, ret, ncalls, wire, last_api>>
  /\ UNCHANGED time_since_last_send
  /\ UNCHANGED pure_vars

(***************************************************************************)
(* The zone operations, step by step for each caller thread.               *)
(*   idle -> acquire -> throttle -> send -> stamp -> recv_begin -> recv    *)
(*        -> extract -> exit -> return -> idle                             *)
(* and "unwind" when an exception propagates out of the with block.        *)
(***************************************************************************)
SessionCalls ==
  { ZoneCall("set_power", 1, 1, 1),
    ZoneCall("set_volume", 1, 2, 40),
    ZoneCall("set_source", 2, 1, 3),
    Call("all_on_off", None, None, Some(1)),
    Call("toggle_mute", Some(1), Some(1), None),
    ZoneCall("get_zone_info", 1, 1, 2) }

LifecycleCalls ==
  { ZoneCall("set_power", 1, 1, 1),
    ZoneCall("set_power", 0, 1, 1),
    ZoneCall("get_zone_info", 1, 1, 2) }

\* the pcs of a thread inside "with self.lock:"
LockedPcs == {"throttle", "send", "stamp", "recv_begin", "recv", "extract", "exit", "unwind"}

RECURSIVE EncodePrefix(_)
\* the bytes of the items of a message, up to the first item that
\* bytes.fromhex() rejects
EncodePrefix(data) ==
  IF data = <<>> \/ ~ItemOk(data[1]) THEN <<>>
  ELSE ItemBytes(data[1]) \o EncodePrefix(Tail(data))

\* a caller begins a new call: its next byte begins a new run
WireCall(w, id) ==
  [w EXCEPT !.id = IF @ = id THEN 0 ELSE @,
            !.bytes = IF w.id = id THEN <<>> ELSE @,
            !.ended = @ \ {id}]

\* the transport sees the bytes bs of caller id, a message of which is msg
WireSend(w, id, bs, msg) ==
  LET same == w.id = id
      run == IF same THEN w.bytes \o bs ELSE bs
      whole == Len(run) = Len(msg) /\ run = EncodePrefix(msg)
  IN  [id |-> id,
       bytes |-> IF whole THEN <<>> ELSE run,
       ended |-> IF same \/ w.id = 0 THEN w.ended ELSE w.ended \cup {w.id},
       frames |-> IF whole THEN w.frames + 1 ELSE w.frames,
       sends_done |-> w.sends_done,
       split |-> w.split \/ id \in w.ended]

\* a zone operation begins: the message (and the signature) are built
\* before the lock is taken; an exception of the builder ends the call
CallOp(t, call) ==
  /\ pc[t] = "idle"
  /\ ncalls < MaxCalls
  /\ ncalls' = ncalls + 1
  /\ LET res == BuildMessage(call)
     IN  IF res.ok
         THEN /\ th' = [th EXCEPT ![t] = [NoFrame EXCEPT !.call = call, !.msg = res.val,
                                                         !.sig = SignatureOf(call), !.started = sock]]
              /\ pc' = [pc EXCEPT ![t] = "acquire"]
         ELSE /\ th' = [th EXCEPT ![t] = [NoFrame EXCEPT !.call = call, !.started = sock,
                                                         !.exc = res.exc]]
              /\ pc' = [pc EXCEPT ![t] = "return"]
  /\ ret' = [ret EXCEPT ![t] = NoResult]
  /\ wire' = WireCall(wire, t)
  /\ UNCHANGED <<sock, lock, inq, dev_writes, last_api>>
  /\ UNCHANGED time_since_last_send
  /\ UNCHANGED pure_vars

\* a lock that anyone may take
CanAcquireAlways == TRUE

\* threading.Lock: free when no thread holds it
CanAcquire == lock = NoThread

\* with self.lock: blocks until the lock is free
Acquire(t) ==
  /\ pc[t] = "acquire"
  /\ CanAcquire
  /\ lock' = t
  /\ pc' = [pc EXCEPT ![t] = "throttle"]
  /\ UNCHANGED <<sock, th, ret, ncalls, wire, inq, dev_writes, last_api>>
  /\ UNCHANGED time_since_last_send
  /\ UNCHANGED pure_vars

\* a __send_data that does not sleep
ThrottleNoSleep(t) ==
  /\ pc[t] = "throttle"
  /\ pc' = [pc EXCEPT ![t] = "send"]
  /\ th' = [th EXCEPT ![t].item = 1]
  /\ UNCHANGED <<sock, lock, ret, ncalls, wire, inq, dev_writes, last_api>>
  /\ UNCHANGED time_since_last_send
  /\ UNCHANGED pure_vars

\* __send_data: delay = max(0, delay - time_since_last_send); sleep(delay)
Throttle(t) ==
  /\ pc[t] = "throttle"
  /\ pc' = [pc EXCEPT ![t] = "send"]
  /\ th' = [th EXCEPT ![t].item = 1]
  /\ LET delay == Max(0, COMMAND_DELAY - time_since_last_send)
     IN  time_since_last_send' = Sleep(time_since_last_send, delay)
  /\ UNCHANGED <<sock, lock, ret, ncalls, wire, inq, dev_writes, last_api>>
  /\ UNCHANGED pure_vars

\* the thread's frame with an exception on its way out of the with block
Raising(t, e, io) ==
  /\ th' = [th EXCEPT ![t].exc = e, ![t].io = th[t].io + io]
  /\ pc' = [pc EXCEPT ![t] = "unwind"]

\* __send_data: one item of the loop; ConnectionResetError is caught and
\* the loop goes on, any other exception propagates
SendItem(t) ==
  /\ pc[t] = "send"
  /\ LET f == th[t]
         item == f.msg[f.item]
         last == f.item = Len(f.msg)
         next == IF last THEN "stamp" ELSE "send"
     IN  IF ~ItemOk(item)
         THEN Raising(t, "ValueError", 0) /\ UNCHANGED wire
         ELSE \E o \in SockSend(sock) :
                CASE o = "sent" ->
                       /\ \E w \in {WireSend(wire, t, ItemBytes(item), f.msg)} :
                            wire' = [w EXCEPT !.sends_done = IF last THEN @ + 1 ELSE @]
                       /\ th' = [th EXCEPT ![t].item = f.item + 1, ![t].io = f.io + 1]
                       /\ pc' = [pc EXCEPT ![t] = next]
                  [] o = "ConnectionResetError" ->
                       /\ wire' = [wire EXCEPT !.sends_done = IF last THEN @ + 1 ELSE @]
                       /\ th' = [th EXCEPT ![t].item = f.item + 1, ![t].io = f.io + 1]
                       /\ pc' = [pc EXCEPT ![t] = next]
                  [] OTHER -> Raising(t, o, 1) /\ UNCHANGED wire
  /\ UNCHANGED <<sock, lock, ret, ncalls, inq, dev_writes, last_api>>
  /\ UNCHANGED time_since_last_send
  /\ UNCHANGED pure_vars

\* a send step that lets go of the lock once the message is out
StampUnlocks(t) ==
  /\ pc[t] = "stamp"
  /\ pc' = [pc EXCEPT ![t] = "recv_begin"]
  /\ lock' = NoThread
  /\ time_since_last_send' = 0
  /\ UNCHANGED <<sock, th, ret, ncalls, wire, inq, dev_writes, last_api>>
  /\ UNCHANGED pure_vars

\* __send_data: self._last_send = time.time(); the lock stays held
Stamp(t) ==
  /\ pc[t] = "stamp"
  /\ pc' = [pc EXCEPT ![t] = "recv_begin"]
  /\ time_since_last_send' = 0
  /\ UNCHANGED <<sock, lock, th, ret, ncalls, wire, inq, dev_writes, last_api>>
  /\ UNCHANGED pure_vars

\* __get_response_message: the read budget, the delay, setblocking(0)
RecvBegin(t) ==
  /\ pc[t] = "recv_begin"
  /\ time_since_last_send' = Sleep(time_since_last_send, COMMAND_DELAY)
  /\ IF SockSetBlocking(sock) # "none"
     THEN Raising(t, SockSetBlocking(sock), 0)
     ELSE /\ th' = [th EXCEPT ![t].no_of_socket_reads = IF th[t].sig = None THEN 1 ELSE 10,
                              ![t].i = 0, ![t].data = <<>>, ![t].matching_message = None]
          /\ pc' = [pc EXCEPT ![t] = "recv"]
  /\ UNCHANGED <<sock, lock, ret, ncalls, wire, inq, dev_writes, last_api>>
  /\ UNCHANGED pure_vars

\* __get_response_message: one pass of the read loop
RecvAttempt(t) ==
  /\ pc[t] = "recv"
  /\ LET f == th[t]
     IN  \E o \in SockRecv(sock, inq) :
           IF o = "OSError"
           THEN Raising(t, o, 1) /\ UNCHANGED <<inq, time_since_last_send>>
           ELSE \E found \in {IF f.sig # None
                                THEN find_signature(IF o = "data" THEN f.data \o inq ELSE f.data, f.sig)
                                ELSE [matching_message |-> None,
                                      data |-> IF o = "data" THEN f.data \o inq ELSE f.data]} :
                LET over == found.matching_message # None \/ f.i + 1 = f.no_of_socket_reads
                IN  /\ inq' = IF o = "data" THEN <<>> ELSE inq
                    /\ th' = [th EXCEPT ![t].data = found.data,
                                        ![t].matching_message = found.matching_message,
                                        ![t].i = f.i + 1,
                                        ![t].io = f.io + 1]
                    /\ pc' = [pc EXCEPT ![t] = IF over THEN "extract" ELSE "recv"]
                    /\ time_since_last_send' =
                         IF found.matching_message # None THEN time_since_last_send
                         ELSE Sleep(time_since_last_send, COMMAND_DELAY)
  /\ UNCHANGED <<sock, lock, ret, ncalls, wire, dev_writes, last_api>>
  /\ UNCHANGED pure_vars

\* a get_zone_info that counts the fields from offset 10
ReturnValueOffset10(call, matching_message) ==
  IF call.op # "get_zone_info" \/ matching_message = None THEN Ok(None)
  ELSE LET m == Val(matching_message)
           rv == Val(call.arg)
       IN  IF rv = 4
           THEN IF Len(m) >= 13 THEN Ok(Some(<<m[11], m[12], m[13]>>)) ELSE Raise("IndexError")
           ELSE IF Len(m) >= rv + 11 THEN Ok(Some(m[rv + 11])) ELSE Raise("IndexError")

\* the value get_zone_info takes out of the matching message; the other
\* operations return None
ReturnValue(call, matching_message) ==
  IF call.op # "get_zone_info" \/ matching_message = None THEN Ok(None)
  ELSE LET m == Val(matching_message)
           rv == Val(call.arg)
       IN  IF rv = 4
           THEN IF Len(m) >= 14 THEN Ok(Some(<<m[12], m[13], m[14]>>)) ELSE Raise("IndexError")
           ELSE IF Len(m) >= rv + 12 THEN Ok(Some(m[rv + 12])) ELSE Raise("IndexError")

\* get_zone_info: return_value is set inside the with block
Extract(t) ==
  /\ pc[t] = "extract"
  /\ LET v == ReturnValue(th[t].call, th[t].matching_message)
     IN  IF v.ok
         THEN /\ ret' = [ret EXCEPT ![t] = [kind |-> "pending", val |-> v.val]]
              /\ pc' = [pc EXCEPT ![t] = "exit"]
              /\ UNCHANGED th
         ELSE Raising(t, v.exc, 0) /\ UNCHANGED ret
  /\ UNCHANGED <<sock, lock, ncalls, wire, inq, dev_writes, last_api>>
  /\ UNCHANGED time_since_last_send
  /\ UNCHANGED pure_vars

\* what is left of a call once __send_data and __get_response_message have
\* returned and the with block is left: which call it was, the state of the
\* session it began in and its exception
Outcome(f) ==
  [NoFrame EXCEPT !.call = f.call, !.started = f.started, !.exc = f.exc]

\* a lock taken and given back by hand, not given back when the body raises
WithExitNoFinally(t) ==
  /\ pc[t] \in {"exit", "unwind"}
  /\ lock' = IF pc[t] = "unwind" THEN lock ELSE NoThread
  /\ pc' = [pc EXCEPT ![t] = "return"]
  /\ th' = [th EXCEPT ![t] = Outcome(th[t])]
  /\ UNCHANGED <<sock, ret, ncalls, wire, inq, dev_writes, last_api>>
  /\ UNCHANGED time_since_last_send
  /\ UNCHANGED pure_vars

\* a with block that leaves the lock taken
WithExitHolds(t) ==
  /\ pc[t] \in {"exit", "unwind"}
  /\ pc' = [pc EXCEPT ![t] = "return"]
  /\ th' = [th EXCEPT ![t] = Outcome(th[t])]
  /\ UNCHANGED <<sock, lock, ret, ncalls, wire, inq, dev_writes, last_api>>
  /\ UNCHANGED time_since_last_send
  /\ UNCHANGED pure_vars

\* the end of "with self.lock:": the lock is released on the normal path
\* and on the path of an exception alike
WithExit(t) ==
  /\ pc[t] \in {"exit", "unwind"}
  /\ lock' = NoThread
  /\ pc' = [pc EXCEPT ![t] = "return"]
  /\ th' = [th EXCEPT ![t] = Outcome(th[t])]
  /\ UNCHANGED <<sock, ret, ncalls, wire, inq, dev_writes, last_api>>
  /\ UNCHANGED time_since_last_send
  /\ UNCHANGED pure_vars

\* the operation ends: it returns its value or raises to its caller
Return(t) ==
  /\ pc[t] = "return"
  /\ pc' = [pc EXCEPT ![t] = "idle"]
  /\ ret' = [ret EXCEPT ![t] = IF th[t].exc = "none"
                               THEN [kind |-> "return", val |-> ret[t].val]
                               ELSE [kind |-> "raise", val |-> Some(th[t].exc)]]
  /\ th' = [th EXCEPT ![t] = NoFrame]
  /\ UNCHANGED <<sock, lock, ncalls, wire, inq, dev_writes, last_api>>
  /\ UNCHANGED time_since_last_send
  /\ UNCHANGED pure_vars

Init == SessionInit /\ CodecIdle /\ VolumeIdle /\ MatcherIdle

\* a thread that has made no call yet
Fresh(t) == pc[t] = "idle" /\ ret[t].kind = "none"

\* The threads are alike: of those that have made no call yet, the one
\* with the lowest number makes its first call first.
InOrder(t) == Fresh(t) => \A u \in Threads : u < t => ~Fresh(u)

\* the steps of the zone operations of the threads in TS
ZoneSteps(TS, calls) ==
  \/ \E t \in TS, call \in calls : InOrder(t) /\ CallOp(t, call)
  \/ \E t \in TS : Acquire(t)
  \/ \E t \in TS : Throttle(t)
  \/ \E t \in TS : SendItem(t)
  \/ \E t \in TS : Stamp(t)
  \/ \E t \in TS : RecvBegin(t)
  \/ \E t \in TS : RecvAttempt(t)
  \/ \E t \in TS : Extract(t)
  \/ \E t \in TS : WithExit(t)
  \/ \E t \in TS : Return(t)

\* some thread has sent a query and waits for its response
Querying == \E t \in Threads : pc[t] \in {"recv_begin", "recv"} /\ th[t].sig # None

\* Concurrent callers on one session: the session is connected, if at all,
\* once and before the first zone operation, the connection stays up, and
\* the device writes a status only in answer to a query.
Next ==
  \/ ZoneSteps(Threads, SessionCalls)
  \/ (ncalls = 0 /\ sock = "unconnected" /\ Connect)
  \/ (Querying /\ DeviceWrite({StatusFrame(0, 1, 2, 20)}))

Spec == Init /\ [][Next]_vars

\* The lifecycle of the session: connect(), is_connected() and __exit__()
\* in any order, at any point of the zone operations of one caller.
NextLifecycle ==
  \/ ZoneSteps({1}, LifecycleCalls)
  \/ Connect
  \/ IsConnected
  \/ Close
  \/ PeerReset
  \/ DeviceWrite(DeviceChunks)

SpecLifecycle == Init /\ [][NextLifecycle]_vars

(***************************************************************************)
(* The codec on its own: every valid call through the builder, every short *)
(* list of byte tokens through the checksum, then the encoding of the      *)
(* items as __send_data sends them.                                        *)
(***************************************************************************)
RawTokens == {T("0","0"), T("7","F"), T("F","0"), <<"1">>, T("f","f"), T("3","c")}

RECURSIVE SeqsUpTo(_, _)
SeqsUpTo(S, n) == IF n = 0 THEN {<<>>}
                  ELSE LET shorter == SeqsUpTo(S, n - 1)
                       IN  shorter \cup {Append(q, x) : q \in shorter, x \in S}

RawInputs == SeqsUpTo(RawTokens, MaxRawLen)

CodecInit ==
  /\ SessionInit
  /\ VolumeIdle
  /\ MatcherIdle
  /\ \/ c_kind = "call" /\ c_in \in ValidCalls
     \/ c_kind = "raw" /\ c_in \in RawInputs
  /\ c_stage = "input"
  /\ c_msg = Ok(<<>>)
  /\ c_out = <<>>

\* a zone operation builds its message
CodecBuild ==
  /\ c_kind = "call" /\ c_stage = "input"
  /\ c_msg' = BuildMessage(c_in)
  /\ c_stage' = "built"
  /\ UNCHANGED <<c_kind, c_in, c_out>>
  /\ UNCHANGED <<session_vars, volume_vars, matcher_vars>>

\* __calc_checksum on a list of byte tokens
CodecChecksum ==
  /\ c_kind = "raw" /\ c_stage = "input"
  /\ c_msg' = calc_checksum(c_in)
  /\ c_stage' = "built"
  /\ UNCHANGED <<c_kind, c_in, c_out>>
  /\ UNCHANGED <<session_vars, volume_vars, matcher_vars>>

RECURSIVE EncodeItems(_)
EncodeItems(data) ==
  IF data = <<>> THEN Ok(<<>>)
  ELSE IF ~ItemOk(data[1]) THEN Raise("ValueError")
  ELSE LET rest == EncodeItems(Tail(data))
       IN  IF rest.ok THEN Ok(ItemBytes(data[1]) \o rest.val) ELSE rest

\* the loop of __send_data: each item zero-filled and decoded to its byte
CodecEncode ==
  /\ c_stage = "built"
  /\ c_msg.ok
  /\ LET enc == EncodeItems(c_msg.val)
     IN  IF enc.ok THEN c_out' = enc.val /\ c_stage' = "sent"
         ELSE c_out' = <<>> /\ c_stage' = "error"
  /\ UNCHANGED <<c_kind, c_in, c_msg>>
  /\ UNCHANGED <<session_vars, volume_vars, matcher_vars>>

CodecNext == CodecBuild \/ CodecChecksum \/ CodecEncode

SpecCodec == CodecInit /\ [][CodecNext]_vars


(***************************************************************************)
(* The volume on its way to the device and back: set_volume builds and     *)
(* sends its message, the device keeps the parameter byte of the message   *)
(* and reports it in the volume byte of its zone status, get_volume reads  *)
(* the status through the matcher.                                         *)
(***************************************************************************)
\* a get_volume that hands on the byte of the device as it is
get_volume_plain(volume_level) == volume_level

\* get_volume: volume_level *= 2 unless it is None
get_volume(volume_level) ==
  IF volume_level # None THEN Some(Val(volume_level) * 2) ELSE None

\* the position of @pr in the set_volume message
VolumeParamIndex == CHOOSE i \in DOMAIN TplSetVolume : TplSetVolume[i] = PR

VolumeInit ==
  /\ SessionInit
  /\ CodecIdle
  /\ MatcherIdle
  /\ rt_stage = "input"
  /\ rt_call \in [controller : 1..MaxController, zone : 1..MaxZone, volume : 0..(MaxVolume + 1)]
  /\ rt_dev = None
  /\ rt_ret = NoResult

\* set_volume(controller, zone, volume); the device keeps the parameter byte
VolumeSet ==
  /\ rt_stage = "input"
  /\ LET msg == BuildMessage(ZoneCall("set_volume", rt_call.controller, rt_call.zone, rt_call.volume))
         sent == EncodeItems(msg.val)
     IN  /\ msg.ok /\ sent.ok
         /\ rt_dev' = Some(sent.val[VolumeParamIndex])
  /\ rt_stage' = "set"
  /\ UNCHANGED <<rt_call, rt_ret>>
  /\ UNCHANGED <<session_vars, codec_vars, matcher_vars>>

\* get_volume(controller, zone) against the status the device sends back
VolumeGet ==
  /\ rt_stage = "set"
  /\ LET call == ZoneCall("get_zone_info", rt_call.controller, rt_call.zone, 2)
         reply == StatusFrame(rt_call.zone - 1, 1, 0, Val(rt_dev))
         found == find_signature(reply, SignatureOf(call))
         value == ReturnValue(call, found.matching_message)
     IN  rt_ret' = IF value.ok THEN [kind |-> "return", val |-> get_volume(value.val)]
                   ELSE [kind |-> "raise", val |-> Some(value.exc)]
  /\ rt_stage' = "got"
  /\ UNCHANGED <<rt_call, rt_dev>>
  /\ UNCHANGED <<session_vars, codec_vars, matcher_vars>>

VolumeNext == VolumeSet \/ VolumeGet

SpecVolume == VolumeInit /\ [][VolumeNext]_vars

(***************************************************************************)
(* The signature matcher on its own, as the read loop drives it: the       *)
(* device writes a script of bytes, each attempt reads the next few of     *)
(* them (none, when the read would block), adds them to the buffer and     *)
(* hands the buffer to __find_signature; the loop ends with a match.       *)
(***************************************************************************)
\* a signature with the value FF in the place of the zone
WildSignature == << T("0","4"), T("0","2"), T("0","0"), T("F","F"), T("0","7") >>

MatcherSignatures ==
  { create_response_signature(TplSignature, Some(1)),
    create_response_signature(TplSignature, Some(2)),
    WildSignature }

\* a whole message of eight bytes that begins like the status of zone 1
ShortFrame == <<240, 4, 2, 0, 0, 7, 1, 247>>

\* what the device writes: a status, two of them, a short message or the
\* message of a keypad before a status
MatcherScripts ==
  { StatusFrame(0, 1, 2, 20),
    StatusFrame(1, 0, 3, 10) \o StatusFrame(0, 1, 2, 20),
    ShortFrame \o StatusFrame(0, 1, 2, 20),
    ShortFrame \o StatusFrame(1, 0, 3, 10),
    <<240, 0, 0, 127, 0, 0, 112, 247>> \o StatusFrame(1, 0, 3, 10),
    <<1, 2>> \o StatusFrame(0, 1, 2, 20) \o <<240, 0>> }

MatcherInit ==
  /\ SessionInit
  /\ CodecIdle
  /\ VolumeIdle
  /\ m_stage = "reading"
  /\ m_sig \in MatcherSignatures
  /\ m_script \in MatcherScripts
  /\ m_in = <<>>
  /\ m_data = <<>>
  /\ m_out = None
  /\ m_read = <<>>
  /\ m_chunk = <<>>

\* one pass of the read loop: data += recv(); __find_signature(data, sig)
MatcherAttempt ==
  /\ m_stage \in {"reading", "scanned"}
  /\ \E k \in 0..Len(m_script) :
       LET stream == m_data \o SubSeq(m_script, 1, k)
           found == find_signature(stream, m_sig)
       IN  /\ m_in' = stream
           /\ m_read' = m_read \o SubSeq(m_script, 1, k)
           /\ m_chunk' = SubSeq(m_script, 1, k)
           /\ m_script' = SubSeq(m_script, k + 1, Len(m_script))
           /\ m_data' = found.data
           /\ m_out' = found.matching_message
           /\ m_stage' = IF found.matching_message # None THEN "matched" ELSE "scanned"
  /\ UNCHANGED m_sig
  /\ UNCHANGED <<session_vars, codec_vars, volume_vars>>

MatcherNext == MatcherAttempt

SpecMatcher == MatcherInit /\ [][MatcherNext]_vars

(***************************************************************************)
(* Queries of one caller: get_zone_info for every field of two zones,      *)
(* while the device writes the status of a zone, whole or cut short.       *)
(***************************************************************************)
QueryCalls == {ZoneCall("get_zone_info", 1, z, f) : z \in {1, 2}, f \in {0, 1, 2, 4}}

\* the two statuses, and the first 20 bytes of the status of zone 1
QueryChunks == DeviceChunks \cup {SubSeq(StatusFrame(0, 1, 2, 20), 1, 20)}

NextQuery ==
  \/ ZoneSteps({1}, QueryCalls)
  \/ (ncalls = 0 /\ sock = "unconnected" /\ Connect)
  \/ DeviceWrite(QueryChunks)

SpecQuery == Init /\ [][NextQuery]_vars

(***************************************************************************)
(* Concurrent callers under fair scheduling: a thread that can take a step *)
(* of its operation takes it in the end, and the lock is fair, so that a   *)
(* thread that waits for it gets it when it is free again and again.       *)
(***************************************************************************)
LiveCalls ==
  { ZoneCall("set_power", 1, 1, 1),
    ZoneCall("get_zone_info", 1, 1, 2) }

\* the steps of a thread that holds the lock or has left the with block
ThreadStep(t) ==
  \/ Throttle(t)
  \/ SendItem(t)
  \/ Stamp(t)
  \/ RecvBegin(t)
  \/ RecvAttempt(t)
  \/ Extract(t)
  \/ WithExit(t)
  \/ Return(t)

Fairness == \A t \in Threads : WF_vars(ThreadStep(t)) /\ SF_vars(Acquire(t))

NextLive ==
  \/ ZoneSteps(Threads, LiveCalls)
  \/ (ncalls = 0 /\ sock = "unconnected" /\ Connect)
  \/ (Querying /\ DeviceWrite({StatusFrame(0, 1, 2, 20)}))

SpecLive == Init /\ [][NextLive]_vars /\ Fairness

(***************************************************************************)
(* Queries and their replies.  One caller queries zone 1 of controller 1.  *)
(* The device answers the n-th query it has received with the volume byte  *)
(* n, so that its replies can be told apart, and it may answer late; the   *)
(* status of zone 1 of another controller on the bus reaches the same      *)
(* socket.                                                                 *)
(***************************************************************************)
ReplyCalls == {ZoneCall("get_zone_info", 1, 1, 2)}

\* a status message whose sender is the controller cc (byte 4 of the
\* message, zero based)
StatusFrameOf(cc, zz, power, source, volume) ==
  [StatusFrame(zz, power, source, volume) EXCEPT ![5] = cc]

\* the device answers the next of the queries it has received
DeviceReply ==
  /\ sock = "connected"
  /\ dev_writes < MaxDeviceWrites
  /\ dev_writes < wire.frames
  /\ inq' = inq \o StatusFrameOf(0, 0, 1, 2, dev_writes + 1)
  /\ dev_writes' = dev_writes + 1
  /\ UNCHANGED <<sock, lock, pc, th, ret, ncalls, wire, last_api>>
  /\ UNCHANGED time_since_last_send
  /\ UNCHANGED pure_vars

\* the second controller reports its zone 1 while a query is out
DeviceOther ==
  /\ Querying
  /\ DeviceWrite({StatusFrameOf(1, 0, 0, 5, 40)})

NextReply ==
  \/ ZoneSteps({1}, ReplyCalls)
  \/ (ncalls = 0 /\ sock = "unconnected" /\ Connect)
  \/ DeviceReply
  \/ DeviceOther

SpecReply == Init /\ [][NextReply]_vars

(***************************************************************************)
(* Properties.                                                             *)
(***************************************************************************)
\* a thread is in its exchange from the first byte it has handed to the
\* socket to the end of its receive step
InExchange(t) == (pc[t] = "send" /\ th[t].io > 0) \/ pc[t] \in {"stamp", "recv_begin", "recv"}

\* C1: the transport sees the bytes of each call as one contiguous run, in
\* the order of the message, and on a connected session exactly one whole
\* message for each call that went through its send loop.
C1_Serialized ==
  /\ ~wire.split
  /\ sock = "connected" =>
       /\ wire.frames = wire.sends_done
       /\ \A t \in Threads :
            pc[t] = "send" =>
              LET sent == EncodePrefix(SubSeq(th[t].msg, 1, th[t].item - 1))
              IN  IF wire.id = t THEN wire.bytes = sent ELSE sent = <<>>

\* two threads have both come back from set_power, two whole messages sent
C1_Witness ==
  /\ sock = "connected"
  /\ wire.frames = 2
  /\ \E t, u \in Threads :
       /\ t # u
       /\ pc[t] = "return" /\ th[t].call.op = "set_power" /\ th[t].exc = "none"
       /\ pc[u] = "return" /\ th[u].call.op = "set_power" /\ th[u].exc = "none"

\* C2: the lock is held over the whole exchange of a zone operation: while
\* one thread is between its first byte sent and the end of its receive
\* step no other thread sends to or reads from the socket, and at most one
\* exchange is in flight.
C2_OneExchange ==
  /\ [](Cardinality({t \in Threads : InExchange(t)}) <= 1)
  /\ [](\A t \in Threads : InExchange(t) => lock = t)
  /\ [][\A t, u \in Threads : (t # u /\ InExchange(t)) => th'[u].io <= th[u].io]_vars

\* one thread polls for the response of its query while another waits
C2_Witness ==
  \E t, u \in Threads :
    /\ pc[t] = "recv" /\ th[t].call.op = "get_zone_info" /\ th[t].i >= 1
    /\ pc[u] = "acquire"

\* C3: the lock is never held by a thread that is not inside the locked
\* region of an operation; after an operation has ended, normally or with
\* an exception raised inside the locked region, the thread does not hold it.
C3_LockReleased ==
  /\ lock \in Threads \cup {NoThread}
  /\ \A t \in Threads : lock = t => pc[t] \in LockedPcs

\* an operation has raised from inside the locked region and the lock is free
C3_Witness ==
  /\ pc[1] = "idle"
  /\ ret[1].kind = "raise"
  /\ ret[1].val \in {Some("ValueError"), Some("BrokenPipeError"), Some("OSError")}
  /\ lock = NoThread

\* C4 as stated: an operation called on an unconnected or closed session
\* raises nothing and makes no send or receive on the socket.
C4_FailFast ==
  \A t \in Threads :
    th[t].started \in Disconnected => (th[t].io = 0 /\ th[t].exc = "none")

\* C5 as stated: connect() returns True or False, True only with the
\* connection established, and after a connect that returned False the
\* session is not connected; is_connected() is False when disconnected.
C5_Original ==
  /\ last_api.name = "connect" =>
       /\ last_api.result \in {"True", "False"}
       /\ last_api.result = "True" => last_api.post = "connected"
       /\ last_api.result = "False" => last_api.post # "connected"
  /\ (last_api.name = "is_connected" /\ last_api.pre \in Disconnected) => last_api.result = "False"

\* C5, amended: connect() returns True exactly when the call establishes
\* the connection and False when it fails, never raising; a failed connect
\* leaves the session as it was (disconnected if it was disconnected, still
\* connected on an already connected session); is_connected() returns
\* False, without raising, in every disconnected state.
C5_ConnectResult ==
  /\ last_api.name = "connect" =>
       /\ last_api.result \in {"True", "False"}
       /\ last_api.result = "True" <=> (last_api.pre = "unconnected" /\ last_api.post = "connected")
       /\ last_api.result = "False" => last_api.post = last_api.pre
       /\ (last_api.result = "False" /\ last_api.pre \in Disconnected) => last_api.post \in Disconnected
  /\ last_api.name = "is_connected" =>
       /\ last_api.result \in {"True", "False"}
       /\ last_api.pre \in Disconnected => last_api.result = "False"
       /\ last_api.pre = "connected" => last_api.result = "True"

\* a connect that failed on a fresh session
C5_Witness == last_api = Api("connect", "unconnected", "unconnected", "False")

\* C6: closing is one-way: a closed session stays closed whatever is called
\* on it, connect() on it fails, is_connected() on it is False, and the
\* session is connected only from the unconnected state.
C6_ClosedIsFinal ==
  /\ [][sock = "closed" => sock' = "closed"]_vars
  /\ [][(sock # "connected" /\ sock' = "connected") => sock = "unconnected"]_vars
  /\ []((last_api.name = "connect" /\ last_api.pre = "closed") =>
          (last_api.result = "False" /\ last_api.post = "closed"))
  /\ []((last_api.name = "is_connected" /\ last_api.pre = "closed") => last_api.result = "False")

\* connect() has been called on the closed session and has failed
C6_Witness == sock = "closed" /\ last_api = Api("connect", "closed", "closed", "False")

RECURSIVE SumBytes(_)
SumBytes(bs) == IF bs = <<>> THEN 0 ELSE bs[1] + SumBytes(Tail(bs))

\* the number of tokens the codec input has before checksum and terminator
PreLen == IF c_kind = "raw" THEN Len(c_in) ELSE Len(TemplateOf(c_in.op))

\* the parameter a call hands to the builder
ParamOf(call) == IF call.op = "set_volume" THEN Val(call.arg) \div 2 ELSE Val(call.arg)

\* C7: the checksum byte that is transmitted is (sum of the byte values +
\* number of bytes) masked with 0x7F, over the bytes before checksum and
\* terminator, for every list of byte tokens, the empty one included; a
\* checksum of 0 goes out as the byte 0x00.
C7_ChecksumTransmitted ==
  c_stage = "sent" =>
    /\ Len(c_out) = PreLen + 2
    /\ c_out[PreLen + 1] = (SumBytes(SubSeq(c_out, 1, PreLen)) + PreLen) % 128

\* the empty list: checksum 0, transmitted as 0x00 before the terminator
C7_Witness == c_kind = "raw" /\ c_stage = "sent" /\ c_in = <<>> /\ c_out = <<0, 247>>

\* C8: every message a zone operation hands to the transport starts with
\* 0xF0 and ends with exactly [checksum, 0xF7], appended once to the
\* substituted template.
C8_Framing ==
  (c_kind = "call" /\ c_stage = "sent") =>
    LET body == substitute(TemplateOf(c_in.op), c_in.controller, c_in.zone,
                           IF c_in.op \in {"toggle_mute", "get_zone_info"} THEN None ELSE Some(ParamOf(c_in)))
        n == Len(body)
    IN  /\ c_out[1] = 240
        /\ Len(c_out) = n + 2
        /\ SubSeq(c_out, 1, n) = [i \in 1..n |-> IntHex(body[i])]
        /\ c_out[n + 1] \in 0..127
        /\ c_out[n + 2] = 247

C8_Witness == c_kind = "call" /\ c_stage = "sent" /\ c_in.op = "set_source" /\ c_out[22] = 247

\* C9 as stated: 20 bytes before the checksum for a zone-set command and 16
\* for the zone query.
C9_Original ==
  (c_kind = "call" /\ c_stage = "sent") =>
    Len(c_out) - 2 = (IF c_in.op = "get_zone_info" THEN 16 ELSE 20)

\* C9, amended: 20 bytes before the checksum for every zone-set command
\* and 15 for the zone query of get_zone_info.
C9_Lengths ==
  /\ Len(TplAllOnOff) = 20
  /\ (c_kind = "call" /\ c_stage \in {"built", "sent"} /\ c_msg.ok) =>
       Len(c_msg.val) - 2 = (IF c_in.op = "get_zone_info" THEN 15 ELSE 20)
  /\ (c_kind = "call" /\ c_stage = "sent") =>
       Len(c_out) - 2 = (IF c_in.op = "get_zone_info" THEN 15 ELSE 20)

C9_Witness == c_kind = "call" /\ c_stage = "sent" /\ c_in.op = "get_zone_info" /\ Len(c_out) = 17

\* C10: for controller and zone in 1..8 the transmitted command has
\* controller-1 at the @cc position, zone-1 at @zz, 0x70 at @kk and the
\* parameter unchanged at @pr.
C10_Fields ==
  (c_kind = "call" /\ c_stage = "sent") =>
    LET tpl == TemplateOf(c_in.op)
    IN  \A i \in DOMAIN tpl :
          /\ tpl[i] = CC => c_out[i] = Val(c_in.controller) - 1
          /\ tpl[i] = ZZ => c_out[i] = Val(c_in.zone) - 1
          /\ tpl[i] = KK => c_out[i] = 112
          /\ tpl[i] = PR => c_out[i] = ParamOf(c_in)

\* set_power(1, 1, 1): controller and zone bytes 0x00, parameter byte 0x01
C10_Witness ==
  /\ c_kind = "call" /\ c_stage = "sent"
  /\ c_in = ZoneCall("set_power", 1, 1, 1)
  /\ c_out[2] = 0 /\ c_out[18] = 0 /\ c_out[16] = 1

\* a call with an argument outside its range: a controller or zone below 1,
\* a volume outside 0..100, a power outside {0, 1}
OutOfRange(call) ==
  \/ (call.controller # None /\ Val(call.controller) < 1)
  \/ (call.zone # None /\ Val(call.zone) < 1)
  \/ (call.op = "set_volume" /\ Val(call.arg) \notin 0..100)
  \/ (call.op \in {"set_power", "all_on_off"} /\ Val(call.arg) \notin {0, 1})

\* C11 as stated: a zone operation called with an out-of-range argument
\* fails with an invalid-argument error when its message is built: it never
\* comes to take the lock and hands no byte to the socket.
C11_InvalidArgument ==
  \A t \in Threads :
    (th[t].call.op # "none" /\ OutOfRange(th[t].call)) =>
      /\ pc[t] = "return"
      /\ th[t].exc = "InvalidArgument"
      /\ th[t].io = 0

\* C12: set_volume(c, z, v) transmits the parameter byte v // 2 and
\* get_volume returns twice the volume byte of the matched status, so with
\* a device that reports the byte it was sent, get_volume after
\* set_volume(v) returns 2 * (v // 2): v for an even v, v - 1 for an odd v.
C12_VolumeRoundTrip ==
  /\ rt_stage \in {"set", "got"} => rt_dev = Some(rt_call.volume \div 2)
  /\ rt_stage = "got" =>
       /\ rt_ret.kind = "return"
       /\ rt_ret.val = Some(2 * (rt_call.volume \div 2))
       /\ rt_call.volume % 2 = 0 => rt_ret.val = Some(rt_call.volume)
       /\ rt_call.volume % 2 = 1 => rt_ret.val = Some(rt_call.volume - 1)

\* a volume of 101 has come back as 100
C12_Witness == rt_stage = "got" /\ rt_call.volume = 101 /\ rt_ret = [kind |-> "return", val |-> Some(100)]

\* the matcher has scanned the buffer m_in
Scanned == m_stage \in {"scanned", "matched"}

\* the window of the signature at position i of the stream equals the
\* signature wherever the signature does not hold 0xFF
WildWindow(ds, sb, i) ==
  /\ i + Len(sb) - 1 <= Len(ds)
  /\ \A j \in DOMAIN sb : sb[j] = 255 \/ ds[i + j - 1] = sb[j]

\* C13 as stated: a signature position holding 0xFF matches any byte of
\* the stream: the matcher finds a match exactly when some window with 24
\* bytes from its start on equals the signature at every other position.
C13_Wildcard ==
  Scanned =>
    LET sb == [j \in DOMAIN m_sig |-> IntHex(m_sig[j])]
    IN  (m_out # None) <=>
          \E i \in 1..Len(m_in) : WildWindow(m_in, sb, i) /\ Len(m_in) - i + 1 >= 24

\* the window of the signature at position i of the stream equals it
EqualWindow(ds, sb, i) ==
  /\ i + Len(sb) - 1 <= Len(ds)
  /\ \A j \in DOMAIN sb : ds[i + j - 1] = sb[j]

\* the positions of the stream where the window equals the signature and
\* 24 bytes or more remain
Candidates(ds, sb) == {i \in 1..Len(ds) : EqualWindow(ds, sb, i) /\ Len(ds) - i + 1 >= 24}

\* C14: the matcher reports a match at the lowest position where the
\* window equals the signature and at least 24 bytes remain, and returns
\* the buffer from there to its end; when every window that equals the
\* signature has fewer than 24 bytes after its start there is no match, and
\* the same window matches once the bytes that follow bring it to 24.
C14_LowestMatch ==
  Scanned =>
    LET sb == [j \in DOMAIN m_sig |-> IntHex(m_sig[j])]
        hits == Candidates(m_in, sb)
    IN  /\ (m_out = None) <=> (hits = {})
        /\ hits # {} =>
             LET first == CHOOSE i \in hits : \A j \in hits : i <= j
             IN  /\ m_out = Some(SubSeq(m_in, first, Len(m_in)))
                 /\ m_data = m_in
        /\ \A i \in 1..Len(m_in), k \in 0..Len(m_script) :
             (EqualWindow(m_in, sb, i) /\ Len(m_in) + k - i + 1 >= 24) =>
               LET more == m_in \o SubSeq(m_script, 1, k)
                   again == find_signature(more, m_sig)
               IN  /\ again.matching_message # None
                   /\ Len(Val(again.matching_message)) >= Len(more) - i + 1

\* the status of zone 1 has matched with its last byte, exactly 24 bytes
\* from the signature on
C14_Witness ==
  /\ m_stage = "matched"
  /\ m_in = StatusFrame(0, 1, 2, 20)
  /\ m_out = Some(SubSeq(StatusFrame(0, 1, 2, 20), 10, 33))
  /\ m_script = <<>>

\* C15 as stated: without a match, the stream the matcher keeps is what
\* follows the last 0xF7 of the buffer, the 0xF7 itself left out; a buffer
\* without 0xF7 is kept whole.
C15_AfterEndMarker ==
  (Scanned /\ m_out = None) =>
    LET f7s == {i \in 1..Len(m_in) : m_in[i] = 247}
    IN  IF f7s = {} THEN m_data = m_in
        ELSE LET last == CHOOSE i \in f7s : \A j \in f7s : j <= i
             IN  m_data = SubSeq(m_in, last + 1, Len(m_in))

\* C16: the receive step makes at most 1 read attempt without a signature
\* and at most 10 with one; a read that would block is an attempt and no
\* error; the step ends with the first attempt that leaves a match, which
\* it returns, and it returns None exactly when no attempt within the
\* budget has left one (always, without a signature).
C16_ReadBudget ==
  /\ [](\A t \in Threads :
          pc[t] \in {"recv", "extract"} =>
            /\ th[t].no_of_socket_reads = IF th[t].sig = None THEN 1 ELSE 10
            /\ th[t].i <= th[t].no_of_socket_reads
            /\ th[t].sig = None => th[t].matching_message = None
            /\ pc[t] = "recv" => (th[t].matching_message = None /\ th[t].i < th[t].no_of_socket_reads)
            /\ (pc[t] = "extract" /\ th[t].matching_message = None) =>
                 th[t].i = th[t].no_of_socket_reads)
  /\ [](\A t \in Threads :
          pc[t] = "exit" =>
            (ret[t].val = None <=> th[t].matching_message = None))
  /\ [][\A t \in Threads :
          (pc[t] = "recv" /\ th'[t] # th[t]) =>
            /\ pc'[t] # "unwind" => th'[t].i = th[t].i + 1
            /\ (sock = "connected" /\ inq = <<>>) =>
                 (pc'[t] # "unwind" /\ th'[t].exc = "none" /\ th'[t].data = th[t].data)
            /\ pc'[t] = "extract" <=>
                 (th'[t].matching_message # None \/ th'[t].i = th[t].no_of_socket_reads)]_vars

\* a query has its match from a later attempt, after a read that would block
C16_Witness ==
  /\ pc[1] = "extract"
  /\ th[1].sig # None
  /\ th[1].matching_message # None
  /\ th[1].i >= 2 /\ th[1].i < 10

\* C17 as stated: a connection reset or a broken pipe while a command is
\* transmitted does not raise to the caller: the operation goes on to its
\* receive step and returns.
C17_ResetNotRaised ==
  \A t \in Threads :
    th[t].started = "connected" => th[t].exc \notin {"ConnectionResetError", "BrokenPipeError"}

\* C18: for any interleaving of the caller threads, the first byte of a
\* command is handed to the socket no less than COMMAND_DELAY after the
\* last-send timestamp, and the send step records the timestamp at the end
\* of every transmission, before the receive step begins.
C18_CommandSpacing ==
  /\ [][\A t \in Threads :
          (pc[t] = "send" /\ th[t].item = 1 /\ th'[t].io > th[t].io) =>
            time_since_last_send >= COMMAND_DELAY]_vars
  /\ [][\A t \in Threads :
          (pc[t] = "send" /\ pc'[t] \in {"stamp", "recv_begin", "recv"}) => pc'[t] = "stamp"]_vars
  /\ [][\A t \in Threads :
          (pc[t] = "stamp" /\ pc'[t] # "stamp") =>
            (pc'[t] = "recv_begin" /\ time_since_last_send' = 0)]_vars
  /\ [](\A t \in Threads :
          (pc[t] = "send" /\ th[t].item > 1) => time_since_last_send >= COMMAND_DELAY)

\* a thread is about to send the first byte of its command after another
\* thread's command has gone out and been stamped
C18_Witness ==
  \E t \in Threads :
    /\ pc[t] = "send" /\ th[t].item = 1
    /\ wire.sends_done >= 1
    /\ time_since_last_send = COMMAND_DELAY

\* C19 as stated: all_on_off(power) on a connected session builds its
\* command without a controller or a zone and returns normally.
C19_AllOnOff ==
  \A t \in Threads :
    (th[t].call.op = "all_on_off" /\ th[t].started = "connected") =>
      /\ th[t].exc = "none"
      /\ pc[t] \in {"acquire", "throttle", "send"} => Len(th[t].msg) = Len(TplAllOnOff) + 2

\* C20: get_zone_info sends its query once and, when a response with the
\* signature of its zone arrives within the budget, returns the byte at
\* offset 11 + field of the match for the fields 0, 1, 2 and the bytes at
\* offsets 11, 12, 13 for the field 4; the index is inside the match in
\* every reachable state; without a match it returns None.
C20_ZoneInfo ==
  \A t \in Threads :
    th[t].call.op = "get_zone_info" =>
      /\ th[t].exc # "IndexError"
      /\ pc[t] \in {"stamp", "recv_begin", "recv", "extract", "exit"} =>
           (th[t].item = Len(th[t].msg) + 1 /\ Len(th[t].msg) = Len(TplGetZoneInfo) + 2)
      /\ pc[t] = "exit" =>
           IF th[t].matching_message = None THEN ret[t].val = None
           ELSE LET m == Val(th[t].matching_message)
                    f == Val(th[t].call.arg)
                IN  /\ Len(m) >= 24
                    /\ SubSeq(m, 1, 5) = <<4, 2, 0, Val(th[t].call.zone) - 1, 7>>
                    /\ f \in {0, 1, 2} => ret[t].val = Some(m[11 + f + 1])
                    /\ f = 4 => ret[t].val = Some(<<m[12], m[13], m[14]>>)

\* the query of every field of zone 1 has the power, source and volume of
\* the status the device has written
C20_Witness ==
  /\ pc[1] = "exit"
  /\ th[1].call = ZoneCall("get_zone_info", 1, 1, 4)
  /\ ret[1].val = Some(<<1, 2, 20>>)

\* C21 as stated: every volume that the query path hands back is twice the
\* volume byte of the matched response: the value of get_zone_info for the
\* volume field, and the volume element of its list for the field 4.
C21_VolumeDoubled ==
  \A t \in Threads :
    (th[t].call.op = "get_zone_info" /\ pc[t] = "exit" /\ th[t].matching_message # None) =>
      LET m == Val(th[t].matching_message)
          f == Val(th[t].call.arg)
      IN  /\ f = 2 => ret[t].val = Some(2 * m[14])
          /\ f = 4 => Val(ret[t].val)[3] = 2 * m[14]

\* C22: every zone operation terminates: the thread that holds the lock
\* makes at most one send for each item of its message and at most 1 or 10
\* reads and then releases the lock, so with fair scheduling and a fair
\* lock every operation that has begun, the ones that wait for the lock
\* included, takes the lock and ends.
C22_Terminates ==
  /\ [](\A t \in Threads :
          /\ th[t].i <= th[t].no_of_socket_reads
          /\ th[t].no_of_socket_reads \in {0, 1, 10}
          /\ th[t].io <= Len(th[t].msg) + th[t].no_of_socket_reads)
  /\ \A t \in Threads : (pc[t] # "idle") ~> (pc[t] = "idle" /\ lock # t)

\* every thread has made a call that waited for nothing more and returned
C22_Witness ==
  /\ \A t \in Threads : pc[t] = "idle" /\ ret[t].kind = "return"
  /\ lock = NoThread
  /\ wire.sends_done = NThreads

\* C23 as stated: after every read the loop has found a match exactly when
\* one scan of all the bytes read so far finds one (a match of a shorter
\* concatenation is a match of every longer one, so the scan of all the
\* bytes read stands for the scans of r1..rj, j <= k).
C23_Original ==
  Scanned => ((m_out # None) <=> (find_signature(m_read, m_sig).matching_message # None))

\* C23 amended: a match of the loop is a match of one scan of the bytes
\* read so far and reaches to their end; and a window of the bytes read that
\* equals the signature, has 24 bytes from its start and no end marker
\* among the first 23 of them is matched by the loop however the bytes were
\* cut into reads.  A window that an end marker follows within 23 bytes is
\* dropped with the message it ends when the scan that saw it came too soon.
C23_Reassembly ==
  Scanned =>
    LET sb == SignatureBytes(m_sig)
    IN  /\ m_out # None =>
             \E p \in Candidates(m_read, sb) : Val(m_out) = SubSeq(m_read, p, Len(m_read))
        /\ \A p \in Candidates(m_read, sb) :
             (\A q \in p..(p + 22) : m_read[q] # END_MARKER) => m_out # None

\* a response matched at its last fragment: the last read brought fewer
\* bytes than a match needs, and an earlier scan had trimmed the buffer
C23_Witness ==
  /\ m_stage = "matched"
  /\ Len(m_chunk) > 0
  /\ Len(m_chunk) < MIN_RESPONSE_LEN
  /\ Len(m_in) < Len(m_read)

\* C24 as stated: the message that get_zone_info matches is the reply to
\* the query it has just sent: its sender is the controller that was asked
\* and it is the device's answer to this query, not to an earlier one.
C24_OwnReply ==
  \A t \in Threads :
    (th[t].call.op = "get_zone_info" /\ pc[t] = "exit" /\ th[t].matching_message # None) =>
      LET m == Val(th[t].matching_message)
          start == Len(th[t].data) - Len(m) + 1
      IN  /\ start > 5 => th[t].data[start - 5] = Val(th[t].call.controller) - 1
          /\ m[14] = wire.frames

====
